---- MODULE Spec2Model ----
\* A model of django_unicorn/call_method_parser.py: eval_value, parse_kwarg and
\* parse_call_method_name, each behind functools.lru_cache(maxsize=128).
\*
\* Representation.
\*   A Python str is a sequence of lexical tokens (whitespace is not kept):
\*   "f(1)" is <<"f", "(", "1", ")">>, "" is <<>>, a decimal number is its digits
\*   ("12" is <<"1", "2">>), a quoted string is <<"'", content, "'">>. A text the
\*   Python tokenizer rejects as a whole (a timestamp, a UUID) is one token that is
\*   in no token class. String concatenation is \o.
\*   A Python value is a record tagged by its type in field t.
\*   An AST node is a record tagged by its class in field node; hasattr(n, "id")
\*   is "id" \in DOMAIN n.
EXTENDS Integers, Sequences, FiniteSets, TLC

\* ------------------------------------------------------------------ values

PyInt(n) == [t |-> "int", v |-> n]
PyStr(s) == [t |-> "str", v |-> s]
PyBool(b) == [t |-> "bool", v |-> b]
PyNone == [t |-> "NoneType"]
PyList(xs) == [t |-> "list", v |-> xs]
PyTuple(xs) == [t |-> "tuple", v |-> xs]
\* A dict keeps insertion order: a sequence of [k, v] items with unique keys.
PyDict(items) == [t |-> "dict", v |-> items]
\* The values the CASTERS build; what is their truth value is all the code reads.
PyDateTime(s) == [t |-> "datetime", v |-> s]
PyTime(s) == [t |-> "time", v |-> s]
PyDate(s) == [t |-> "date", v |-> s]
PyTimeDelta(secs) == [t |-> "timedelta", v |-> secs]
PyUUID(s) == [t |-> "UUID", v |-> s]

\* bool(value), as `if casted_value:` reads it.
Truthy(val) ==
  CASE val.t = "NoneType" -> FALSE
    [] val.t = "bool" -> val.v
    [] val.t = "int" -> val.v # 0
    [] val.t = "timedelta" -> val.v # 0
    [] val.t \in {"str", "list", "tuple", "dict"} -> Len(val.v) > 0
    [] OTHER -> TRUE

\* d[k] = v on an insertion-ordered dict: a present key keeps its place and
\* takes the new value, a new key is appended.
DictSet(items, k, v) ==
  IF \E i \in 1..Len(items) : items[i].k = k
    THEN [i \in 1..Len(items) |->
            IF items[i].k = k THEN [k |-> k, v |-> v] ELSE items[i]]
    ELSE Append(items, [k |-> k, v |-> v])

\* What a call does: return a value or raise an exception.
Return(val) == [kind |-> "return", val |-> val]
Raise(exc) == [kind |-> "raise", exc |-> exc]

\* ------------------------------------------------------------------ tokens

Digits == {"0", "1", "2", "3", "4", "5", "6", "7", "8", "9"}
NameConstants == {"True", "False", "None"}
Identifiers ==
  {"f", "g", "x", "y", "a", "b", "c", "k", "foo", "set_name", "no_parens",
   "refresh", "some_undefined_name"}

DigitValue(d) ==
  CASE d = "0" -> 0 [] d = "1" -> 1 [] d = "2" -> 2 [] d = "3" -> 3
    [] d = "4" -> 4 [] d = "5" -> 5 [] d = "6" -> 6 [] d = "7" -> 7
    [] d = "8" -> 8 [] d = "9" -> 9

DigitToken(n) ==
  CASE n = 0 -> "0" [] n = 1 -> "1" [] n = 2 -> "2" [] n = 3 -> "3"
    [] n = 4 -> "4" [] n = 5 -> "5" [] n = 6 -> "6" [] n = 7 -> "7"
    [] n = 8 -> "8" [] n = 9 -> "9"

\* str(n) for n >= 0.
RECURSIVE Decimal(_)
Decimal(n) == IF n < 10 THEN <<DigitToken(n)>>
              ELSE Append(Decimal(n \div 10), DigitToken(n % 10))

\* ------------------------------------------------------------- the parser
\* ast.parse and the parse inside ast.literal_eval, on the part of Python's
\* grammar the texts below use: simple statements joined by ";", assignment
\* (chained), augmented assignment, return, pass, and expressions built from
\* names, numbers, strings, True/False/None, list and tuple displays,
\* attribute access, calls with positional and keyword arguments, subscripts
\* and binary + and -. A parse step yields [ok, node, rest].

Fail == [ok |-> FALSE]
Ok(n, rest) == [ok |-> TRUE, node |-> n, rest |-> rest]

Constant(val) == [node |-> "Constant", value |-> val]
Name(id) == [node |-> "Name", id |-> id]
Attribute(value, attr) == [node |-> "Attribute", value |-> value, attr |-> attr]
Call(func, args, keywords) ==
  [node |-> "Call", func |-> func, args |-> args, keywords |-> keywords]
Keyword(arg, value) == [node |-> "keyword", arg |-> arg, value |-> value]
ListNode(elts) == [node |-> "List", elts |-> elts]
TupleNode(elts) == [node |-> "Tuple", elts |-> elts]
BinOp(left, op, right) ==
  [node |-> "BinOp", left |-> left, op |-> op, right |-> right]
Subscript(value, slice) == [node |-> "Subscript", value |-> value, slice |-> slice]
ExprStmt(value) == [node |-> "Expr", value |-> value]
Assign(targets, value) == [node |-> "Assign", targets |-> targets, value |-> value]
AugAssign(target, op, value) ==
  [node |-> "AugAssign", target |-> target, op |-> op, value |-> value]
ReturnStmt(value) == [node |-> "Return", value |-> value]
Pass == [node |-> "Pass"]
\* Python's None where a node's field is empty (the value of a bare return).
NoNode == [node |-> "NoneType"]
Module(body) == [node |-> "Module", body |-> body]

Peek(toks) == IF toks = <<>> THEN "<EOF>" ELSE Head(toks)

\* The longest run of digits toks starts with.
RECURSIVE DigitRun(_)
DigitRun(toks) ==
  IF toks # <<>> /\ Head(toks) \in Digits
    THEN <<Head(toks)>> \o DigitRun(Tail(toks))
    ELSE <<>>

RECURSIVE DecimalValue(_)
DecimalValue(ds) ==
  IF ds = <<>> THEN 0
  ELSE 10 * DecimalValue(SubSeq(ds, 1, Len(ds) - 1)) + DigitValue(ds[Len(ds)])

\* "leading zeros in decimal integer literals are not permitted" (00 is 0).
ParseNumber(toks) ==
  LET ds == DigitRun(toks)
      val == DecimalValue(ds)
  IN IF Len(ds) > 1 /\ ds[1] = "0" /\ val # 0 THEN Fail
     ELSE Ok(Constant(PyInt(val)), SubSeq(toks, Len(ds) + 1, Len(toks)))

\* 'content' or ''.
ParseString(toks) ==
  IF Len(toks) >= 2 /\ toks[2] = "'"
    THEN Ok(Constant(PyStr(<<>>)), SubSeq(toks, 3, Len(toks)))
  ELSE IF Len(toks) >= 3 /\ toks[3] = "'"
    THEN Ok(Constant(PyStr(<<toks[2]>>)), SubSeq(toks, 4, Len(toks)))
  ELSE Fail

NameConstantValue(tok) ==
  CASE tok = "True" -> PyBool(TRUE)
    [] tok = "False" -> PyBool(FALSE)
    [] tok = "None" -> PyNone

\* What may stand left of "=": a name, an attribute, a subscript, or a list or
\* tuple of such ("cannot assign to function call", "cannot assign to literal").
RECURSIVE IsTarget(_)
IsTarget(n) ==
  CASE n.node \in {"Name", "Attribute", "Subscript"} -> TRUE
    [] n.node \in {"List", "Tuple"} ->
         \A i \in 1..Len(n.elts) : IsTarget(n.elts[i])
    [] OTHER -> FALSE

From(toks, i) == SubSeq(toks, i, Len(toks))

\* The recursive-descent parser. what names the grammar rule to parse at the
\* head of toks; acc is what the rule has read so far and close the bracket
\* that ends a display.
\*   "stmts"      statements joined by ";"             acc: the statements
\*   "stmt"       one simple statement
\*   "assign"     after "=": e = ... = value           acc: the targets
\*   "expr"       primary (("+" | "-") primary)*
\*   "binrest"    the operators after a primary        acc: the left operand
\*   "primary"    atom trailer*
\*   "trailers"   .name, (args), [index]               acc: the node so far
\*   "atom"       number, string, name, [..], (..)
\*   "elts"       after a bracket: e, e, ... close     acc: the elements
\*   "args"       after the "(" of a call              acc: [args, keywords]
RECURSIVE Parse(_, _, _, _)
Parse(what, toks, acc, close) ==
  LET tok == Peek(toks)
      e == Parse("expr", toks, <<>>, "")
      after == Peek(e.rest)
  IN CASE what = "stmts" ->
            IF toks = <<>> THEN Ok(acc, <<>>)
            ELSE LET s == Parse("stmt", toks, <<>>, "")
                 IN IF ~s.ok THEN Fail
                    ELSE IF s.rest = <<>> THEN Ok(Append(acc, s.node), <<>>)
                    ELSE IF Head(s.rest) = ";"
                      THEN Parse("stmts", Tail(s.rest), Append(acc, s.node), "")
                    ELSE Fail
       [] what = "stmt" ->
            IF tok = "pass" THEN Ok(Pass, Tail(toks))
            ELSE IF tok = "return"
              THEN LET v == Parse("expr", Tail(toks), <<>>, "")
                   IN IF Peek(Tail(toks)) \in {"<EOF>", ";"}
                        THEN Ok(ReturnStmt(NoNode), Tail(toks))
                      ELSE IF v.ok THEN Ok(ReturnStmt(v.node), v.rest)
                      ELSE Fail
            ELSE IF ~e.ok THEN Fail
            ELSE IF after = "="
              THEN IF IsTarget(e.node)
                     THEN Parse("assign", Tail(e.rest), <<e.node>>, "")
                     ELSE Fail
            ELSE IF after = "+="
              THEN LET v == Parse("expr", Tail(e.rest), <<>>, "")
                   IN IF v.ok /\ e.node.node \in {"Name", "Attribute", "Subscript"}
                        THEN Ok(AugAssign(e.node, "+", v.node), v.rest)
                        ELSE Fail
            ELSE Ok(ExprStmt(e.node), e.rest)
       [] what = "assign" ->
            IF ~e.ok THEN Fail
            ELSE IF after = "="
              THEN IF IsTarget(e.node)
                     THEN Parse("assign", Tail(e.rest), Append(acc, e.node), "")
                     ELSE Fail
            ELSE Ok(Assign(acc, e.node), e.rest)
       [] what = "expr" ->
            LET l == Parse("primary", toks, <<>>, "")
            IN IF l.ok THEN Parse("binrest", l.rest, l.node, "") ELSE Fail
       [] what = "binrest" ->
            IF tok \in {"+", "-"}
              THEN LET r == Parse("primary", Tail(toks), <<>>, "")
                   IN IF r.ok
                        THEN Parse("binrest", r.rest, BinOp(acc, tok, r.node), "")
                        ELSE Fail
              ELSE Ok(acc, toks)
       [] what = "primary" ->
            LET a == Parse("atom", toks, <<>>, "")
            IN IF a.ok THEN Parse("trailers", a.rest, a.node, "") ELSE Fail
       [] what = "trailers" ->
            IF tok = "."
              THEN IF Len(toks) >= 2 /\ toks[2] \in Identifiers
                     THEN Parse("trailers", From(toks, 3), Attribute(acc, toks[2]), "")
                     ELSE Fail
            ELSE IF tok = "("
              THEN LET as == Parse("args", Tail(toks),
                                   [args |-> <<>>, keywords |-> <<>>], "")
                   IN IF as.ok
                        THEN Parse("trailers", as.rest,
                                   Call(acc, as.node.args, as.node.keywords), "")
                        ELSE Fail
            ELSE IF tok = "["
              THEN LET ix == Parse("expr", Tail(toks), <<>>, "")
                   IN IF ix.ok /\ Peek(ix.rest) = "]"
                        THEN Parse("trailers", Tail(ix.rest), Subscript(acc, ix.node), "")
                        ELSE Fail
            ELSE Ok(acc, toks)
       [] what = "atom" ->
            IF tok \in Digits THEN ParseNumber(toks)
            ELSE IF tok = "'" THEN ParseString(toks)
            ELSE IF tok \in NameConstants
              THEN Ok(Constant(NameConstantValue(tok)), Tail(toks))
            ELSE IF tok \in Identifiers THEN Ok(Name(tok), Tail(toks))
            ELSE IF tok \in {"[", "("}
              THEN LET es == Parse("elts", Tail(toks), <<>>,
                                   IF tok = "[" THEN "]" ELSE ")")
                   IN IF ~es.ok THEN Fail
                      ELSE IF tok = "[" THEN Ok(ListNode(es.node), es.rest)
                      ELSE IF Len(es.node) = 1 /\ ~es.comma THEN Ok(es.node[1], es.rest)
                      ELSE Ok(TupleNode(es.node), es.rest)
            ELSE Fail
       [] what = "elts" ->
            \* A trailing comma is allowed; comma tells whether one was read.
            IF tok = close
              THEN [ok |-> TRUE, node |-> acc, rest |-> Tail(toks),
                    comma |-> acc # <<>>]
            ELSE IF ~e.ok THEN Fail
            ELSE IF after = ","
              THEN LET more == Parse("elts", Tail(e.rest), Append(acc, e.node), close)
                   IN IF more.ok THEN [more EXCEPT !.comma = TRUE] ELSE Fail
            ELSE IF after = close
              THEN [ok |-> TRUE, node |-> Append(acc, e.node), rest |-> Tail(e.rest),
                    comma |-> acc # <<>>]
            ELSE Fail
       [] what = "args" ->
            \* A positional argument after a keyword argument is a syntax error.
            IF tok = ")" THEN Ok(acc, Tail(toks))
            ELSE LET iskw == Len(toks) >= 2 /\ toks[1] \in Identifiers /\ toks[2] = "="
                     v == Parse("expr", IF iskw THEN From(toks, 3) ELSE toks, <<>>, "")
                     acc2 == IF iskw
                               THEN [acc EXCEPT !.keywords = Append(@, Keyword(toks[1], v.node))]
                               ELSE [acc EXCEPT !.args = Append(@, v.node)]
                 IN IF ~v.ok \/ (~iskw /\ acc.keywords # <<>>) THEN Fail
                    ELSE IF Peek(v.rest) = ","
                      THEN Parse("args", Tail(v.rest), acc2, "")
                    ELSE IF Peek(v.rest) = ")" THEN Ok(acc2, Tail(v.rest))
                    ELSE Fail

\* A Module or an expression node, or SyntaxError: r is what Parse made of
\* the whole text.
Parsed(r, wrap) ==
  IF r.ok /\ r.rest = <<>>
    THEN Return(IF wrap THEN Module(r.node) ELSE r.node)
    ELSE Raise("SyntaxError")

\* ast.parse(text) (mode "exec": the second positional argument the code
\* passes, "eval", is the filename): a Module, or SyntaxError.
ast_parse(text) == Parsed(Parse("stmts", text, <<>>, ""), TRUE)

\* The parse of ast.literal_eval(str): mode "eval", one expression.
ast_parse_eval(text) == Parsed(Parse("expr", text, <<>>, ""), FALSE)

\* ---------------------------------------------------------- literal_eval

IsStr(a) == "t" \in DOMAIN a /\ a.t = "str"

\* _convert of ast.literal_eval: constants and list and tuple displays of
\* them; any other node is "malformed node or string" (ValueError).
RECURSIVE Convert(_)
Convert(n) ==
  CASE n.node = "Constant" -> Return(n.value)
    [] n.node \in {"List", "Tuple"} ->
         LET rs == [i \in 1..Len(n.elts) |-> Convert(n.elts[i])]
             vs == [i \in 1..Len(n.elts) |-> rs[i].val]
         IN IF \E i \in 1..Len(rs) : rs[i].kind = "raise" THEN Raise("ValueError")
            ELSE IF n.node = "List" THEN Return(PyList(vs))
            ELSE Return(PyTuple(vs))
    [] OTHER -> Raise("ValueError")

\* The rest of literal_eval(str) once the text is parsed: p is the parse.
ConvertParsed(p) == IF p.kind = "raise" THEN p ELSE Convert(p.val)

\* ast.literal_eval(node_or_string): a str is parsed first (SyntaxError).
literal_eval(node_or_string) ==
  IF IsStr(node_or_string)
    THEN ConvertParsed(ast_parse_eval(node_or_string.v))
    ELSE Convert(node_or_string)

\* ------------------------------------------------------- _get_expr_string

RECURSIVE GetExprLoop(_, _)
GetExprLoop(current_expr, expr_str) ==
  IF current_expr.node = "Name"
    THEN IF expr_str = <<>> THEN <<current_expr.id>>
         ELSE <<current_expr.id, ".">> \o expr_str
  ELSE IF current_expr.node = "Attribute"
    THEN GetExprLoop(current_expr.value,
                     IF expr_str = <<>> THEN <<current_expr.attr>>
                     ELSE <<current_expr.attr, ".">> \o expr_str)
  ELSE expr_str

_get_expr_string(expr) == GetExprLoop(expr, <<>>)

\* ---------------------------------------------------------------- CASTERS
\* django.utils.dateparse and uuid.UUID on the texts of the model. Each parse_*
\* returns None for a text that is not in its format and raises ValueError for
\* one that is but names no real date or time; parse_duration builds a
\* timedelta, which raises OverflowError beyond 999999999 days; UUID raises
\* ValueError for a badly formed text.

T_datetime == <<"2020-01-01T00:00:00">>
T_time == <<"12:30:00">>
T_date == <<"2020-01-1">>
T_duration == <<"1 10:00:00">>
T_zero_duration == <<"0 0:00:00">>
T_bad_time == <<"25:00:00">>
T_bad_datetime == <<"2020-13-01T00:00:00">>
T_uuid == <<"123e4567-e89b-12d3-a456-426614174000">>
T_overflow == <<"99999999999 1:00:00">>

parse_datetime(a) ==
  CASE a = T_datetime -> Return(PyDateTime(a))
    [] a = T_bad_datetime -> Raise("ValueError")
    [] OTHER -> Return(PyNone)

parse_time(a) ==
  CASE a = T_time -> Return(PyTime(a))
    [] a = T_bad_time -> Raise("ValueError")
    [] OTHER -> Return(PyNone)

parse_date(a) ==
  CASE a = T_date -> Return(PyDate(a))
    [] OTHER -> Return(PyNone)

parse_duration(a) ==
  CASE a = T_duration -> Return(PyTimeDelta(122400))
    [] a = T_bad_time -> Return(PyTimeDelta(90000))
    [] a = T_zero_duration -> Return(PyTimeDelta(0))
    [] a = T_overflow -> Raise("OverflowError")
    [] OTHER -> Return(PyNone)

UUID(a) ==
  CASE a = T_uuid -> Return(PyUUID(a))
    [] OTHER -> Raise("ValueError")

CASTERS == <<"parse_datetime", "parse_time", "parse_date", "parse_duration", "UUID">>

Caster(name, a) ==
  CASE name = "parse_datetime" -> parse_datetime(a)
    [] name = "parse_time" -> parse_time(a)
    [] name = "parse_date" -> parse_date(a)
    [] name = "parse_duration" -> parse_duration(a)
    [] name = "UUID" -> UUID(a)

\* ------------------------------------------------------------- eval_value

\* for caster in CASTERS, from the i-th on. tried lists the casters called.
RECURSIVE RunCasters(_, _, _)
RunCasters(value, i, tried) ==
  IF i > Len(CASTERS) THEN [res |-> Return(value), tried |-> tried]
  ELSE LET r == Caster(CASTERS[i], value.v)
           called == Append(tried, CASTERS[i])
       IN IF r.kind = "raise"
            THEN IF r.exc = "ValueError" THEN RunCasters(value, i + 1, called)
                 ELSE [res |-> r, tried |-> called]
          ELSE IF Truthy(r.val) THEN [res |-> Return(r.val), tried |-> called]
          ELSE RunCasters(value, i + 1, called)

\* TryLiteral with `except Exception` in place of `except SyntaxError`: a
\* malformed literal is handed to the casters and comes back as it was.
TryLiteral_catches_all(value, r) ==
  IF r.kind = "raise" /\ IsStr(value) THEN RunCasters(value, 1, <<>>)
  ELSE IF r.kind = "raise" THEN [res |-> Return(value), tried |-> <<>>]
  ELSE [res |-> r, tried |-> <<>>]

\* The try statement of eval_value: r is what ast.literal_eval(value) did.
TryLiteral(value, r) ==
  IF r.kind = "raise" /\ r.exc = "SyntaxError" THEN RunCasters(value, 1, <<>>)
  ELSE [res |-> r, tried |-> <<>>]

\* The function under the decorator.
eval_value_body(value) == TryLiteral(value, literal_eval(value))

\* -------------------------------------------------------------- lru_cache
\* functools.lru_cache(maxsize=128): entries in order of use, the least
\* recently used first. used is the time of the entry's last use; nothing in
\* the cache reads it.

maxsize == 128

Find(cache, key) ==
  IF \E i \in 1..Len(cache) : cache[i].key = key
    THEN CHOOSE i \in 1..Len(cache) : cache[i].key = key
    ELSE 0

Without(cache, i) ==
  [j \in 1..(Len(cache) - 1) |-> IF j < i THEN cache[j] ELSE cache[j + 1]]

\* CacheHit of a first-in-first-out cache: a hit leaves the entry in place.
CacheHit_in_place(cache, i, now) ==
  [cache EXCEPT ![i].used = now]

\* A hit moves the entry to the most recently used end.
CacheHit(cache, i, now) ==
  Append(Without(cache, i), [cache[i] EXCEPT !.used = now])

\* A miss whose call returned: the oldest entry leaves a full cache.
CacheInsert(cache, key, val, now) ==
  Append(IF Len(cache) >= maxsize THEN Tail(cache) ELSE cache,
         [key |-> key, val |-> val, used |-> now])

\* One call of a decorated function. own is the function's cache, st the
\* state [cache, clock] of eval_value's cache and the time at the lookup,
\* b what the function under the decorator does ([st, res, tried]), which
\* only a miss runs. An exception is not cached. evicted is the time of last
\* use of the entry that left (0: none left).
Lru(own, key, st, b) ==
  LET i == Find(own, key)
      now == st.clock
  IN IF i # 0
       THEN [own |-> CacheHit(own, i, now), st |-> st, res |-> Return(own[i].val),
             tried |-> <<>>, hit |-> TRUE, evicted |-> 0]
       ELSE [own |-> IF b.res.kind = "return"
                       THEN CacheInsert(own, key, b.res.val, now) ELSE own,
             st |-> b.st, res |-> b.res, tried |-> b.tried, hit |-> FALSE,
             evicted |-> IF b.res.kind = "return" /\ Len(own) >= maxsize
                           THEN own[1].used ELSE 0]

\* A str argument is a key by its value; an AST node hashes by identity, and
\* every parse builds new nodes: the time of the call identifies the node.
EvalKey(value, now) ==
  IF IsStr(value) THEN [k |-> "str", text |-> value.v, id |-> 0]
  ELSE [k |-> "node", text |-> <<>>, id |-> now]

\* eval_value's own cache is the cache st carries.
EvalOut(l) == [l EXCEPT !.st.cache = l.own]

\* eval_value as its callers see it.
eval_value(st, value) ==
  EvalOut(Lru(st.cache, EvalKey(value, st.clock + 1),
              [st EXCEPT !.clock = @ + 1],
              eval_value_body(value) @@ [st |-> [st EXCEPT !.clock = @ + 1]]))

\* ------------------------------------------------------------ parse_kwarg

\* The inner try statement: e is what eval_value(assign.value) did.
parse_kwarg_assign(assign, raise_if_unparseable, e) ==
  LET target == assign.targets[1]
      key == _get_expr_string(target)
  IN IF e.res.kind = "return"
       THEN [st |-> e.st,
             res |-> Return(PyDict(<<[k |-> PyStr(key), v |-> e.res.val]>>))]
     ELSE IF e.res.exc = "ValueError"
       THEN IF raise_if_unparseable THEN [st |-> e.st, res |-> e.res]
            ELSE IF "id" \in DOMAIN target
              THEN [st |-> e.st,
                    res |-> Return(PyDict(<<[k |-> PyStr(<<target.id>>),
                                            v |-> PyStr(_get_expr_string(assign.value))]>>))]
            ELSE [st |-> e.st, res |-> Raise("AttributeError")]
     ELSE IF e.res.exc = "SyntaxError"
       THEN [st |-> e.st, res |-> Raise("InvalidKwarg")]
     ELSE [st |-> e.st, res |-> e.res]

\* The outer try statement: tree is what ast.parse(kwarg, "eval") did.
parse_kwarg_tree(st, tree, raise_if_unparseable) ==
  IF tree.kind = "raise" THEN [st |-> st, res |-> Raise("InvalidKwarg")]
  ELSE IF tree.val.body # <<>> /\ tree.val.body[1].node = "Assign"
    THEN parse_kwarg_assign(tree.val.body[1], raise_if_unparseable,
                            eval_value(st, tree.val.body[1].value))
  ELSE [st |-> st, res |-> Raise("InvalidKwarg")]

\* The function under the decorator.
parse_kwarg_body(st, kwarg, raise_if_unparseable) ==
  parse_kwarg_tree(st, ast_parse(kwarg), raise_if_unparseable)

\* The decorated parse_kwarg. c is [evalCache, own, clock]: the cache of
\* eval_value, the function's own cache and the time. form is how the caller
\* passed raise_if_unparseable ("omitted", "False" or "True"): the arguments
\* as passed are the key.
parse_kwarg(c, kwarg, form) ==
  Lru(c.own, [text |-> kwarg, flag |-> form],
      [cache |-> c.evalCache, clock |-> c.clock + 1],
      parse_kwarg_body([cache |-> c.evalCache, clock |-> c.clock + 1], kwarg,
                       form = "True") @@ [tried |-> <<>>])

\* ------------------------------------------------- parse_call_method_name

\* [eval_value(arg) for arg in call.args], from the i-th on; the first
\* exception ends it. e is what eval_value(args[i]) did.
RECURSIVE EvalArgs(_, _, _, _), EvalArg(_, _, _, _)
EvalArg(args, i, acc, e) ==
  IF e.res.kind = "raise" THEN [st |-> e.st, res |-> e.res]
  ELSE EvalArgs(e.st, args, i + 1, Append(acc, e.res.val))
EvalArgs(st, args, i, acc) ==
  IF i > Len(args) THEN [st |-> st, res |-> Return(acc)]
  ELSE EvalArg(args, i, acc, eval_value(st, args[i]))

\* {kw.arg: eval_value(kw.value) for kw in call.keywords}
RECURSIVE EvalKeywords(_, _, _, _), EvalKeyword(_, _, _, _)
EvalKeyword(keywords, i, acc, e) ==
  IF e.res.kind = "raise" THEN [st |-> e.st, res |-> e.res]
  ELSE EvalKeywords(e.st, keywords, i + 1,
                    DictSet(acc, PyStr(<<keywords[i].arg>>), e.res.val))
EvalKeywords(st, keywords, i, acc) ==
  IF i > Len(keywords) THEN [st |-> st, res |-> Return(acc)]
  ELSE EvalKeyword(keywords, i, acc, eval_value(st, keywords[i].value))

\* CallResult without the "$" added back.
CallResult_without_dollar(dollar_func, method_name, args, kwargs) ==
  PyTuple(<<PyStr(method_name), PyList(args), PyDict(kwargs)>>)

\* The tuple the function returns; "$" is added back to special functions.
CallResult(dollar_func, method_name, args, kwargs) ==
  PyTuple(<<PyStr(IF dollar_func THEN <<"$">> \o method_name ELSE method_name),
            PyList(args), PyDict(kwargs)>>)

\* kwargs is what the dict comprehension over call.keywords did.
parse_call_kwargs(dollar_func, method_name, args, kwargs) ==
  IF kwargs.res.kind = "raise" THEN kwargs
  ELSE [st |-> kwargs.st,
        res |-> Return(CallResult(dollar_func, method_name, args, kwargs.res.val))]

\* args is what the list comprehension over call.args did.
parse_call_args(dollar_func, call, args) ==
  IF args.res.kind = "raise" THEN args
  ELSE parse_call_kwargs(dollar_func, <<call.func.id>>, args.res.val,
                         EvalKeywords(args.st, call.keywords, 1, <<>>))

\* tree is what ast.parse(call_method_name, "eval") did.
parse_call_tree(st, dollar_func, call_method_name, tree) ==
  IF tree.kind = "raise" THEN [st |-> st, res |-> Raise("SyntaxError")]
  ELSE IF tree.val.body = <<>>
    THEN [st |-> st,
          res |-> Return(CallResult(dollar_func, call_method_name, <<>>, <<>>))]
  ELSE IF "value" \notin DOMAIN tree.val.body[1]
    THEN [st |-> st, res |-> Raise("AttributeError")]
  ELSE IF tree.val.body[1].value.node # "Call"
    THEN [st |-> st,
          res |-> Return(CallResult(dollar_func, call_method_name, <<>>, <<>>))]
  ELSE IF "id" \notin DOMAIN tree.val.body[1].value.func
    THEN [st |-> st, res |-> Raise("AttributeError")]
  ELSE parse_call_args(dollar_func, tree.val.body[1].value,
                       EvalArgs(st, tree.val.body[1].value.args, 1, <<>>))

startswith_dollar(text) == text # <<>> /\ Head(text) = "$"

\* The function under the decorator.
parse_call_method_name_body(st, text) ==
  parse_call_tree(st, startswith_dollar(text),
                  IF startswith_dollar(text) THEN Tail(text) ELSE text,
                  ast_parse(IF startswith_dollar(text) THEN Tail(text) ELSE text))

\* The decorated parse_call_method_name.
parse_call_method_name(c, text) ==
  Lru(c.own, [text |-> text],
      [cache |-> c.evalCache, clock |-> c.clock + 1],
      parse_call_method_name_body([cache |-> c.evalCache, clock |-> c.clock + 1],
                                  text) @@ [tried |-> <<>>])

\* ------------------------------------------------------------- the inputs

MaxArgs == 2
MaxCalls == 2
MaxRepeats == 2
Extra == 3

\* repr(value), as the text of a literal.
RECURSIVE Render(_)
RECURSIVE RenderItems(_, _)
RenderItems(xs, i) ==
  IF i > Len(xs) THEN <<>>
  ELSE (IF i > 1 THEN <<",">> ELSE <<>>) \o Render(xs[i]) \o RenderItems(xs, i + 1)
Render(val) ==
  CASE val.t = "int" -> Decimal(val.v)
    [] val.t = "str" -> <<"'">> \o val.v \o <<"'">>
    [] val.t = "list" -> <<"[">> \o RenderItems(val.v, 1) \o <<"]">>

ArgValues == {PyInt(1), PyStr(<<"Bob">>)}
KwValues == {PyInt(12), PyList(<<PyInt(1), PyStr(<<>>)>>)}
KwNames == {"a", "k"}
CallNames == {"set_name"}

SeqsUpTo(S, n) == UNION {[1..m -> S] : m \in 0..n}

\* Keyword arguments with distinct names, as [arg, value] pairs.
KwSeqs ==
  {kws \in SeqsUpTo([arg : KwNames, value : KwValues], Cardinality(KwNames)) :
     \A i, j \in 1..Len(kws) : i # j => kws[i].arg # kws[j].arg}

\* name(a1, ..., an, k1=v1, ..., km=vm), with or without "$" before it.
CallDescs ==
  [dollar : BOOLEAN, name : CallNames, args : SeqsUpTo(ArgValues, MaxArgs),
   kwargs : KwSeqs]

RECURSIVE RenderKwargs(_, _, _)
RenderKwargs(kws, i, first_arg) ==
  IF i > Len(kws) THEN <<>>
  ELSE (IF first_arg THEN <<>> ELSE <<",">>) \o <<kws[i].arg, "=">>
         \o Render(kws[i].value) \o RenderKwargs(kws, i + 1, FALSE)

RenderCall(d) ==
  (IF d.dollar THEN <<"$">> ELSE <<>>) \o <<d.name, "(">>
    \o RenderItems(d.args, 1) \o RenderKwargs(d.kwargs, 1, d.args = <<>>)
    \o <<")">>

WellFormedCalls == {RenderCall(d) : d \in CallDescs}

\* Texts of the other shapes the three functions meet.
OtherCalls ==
  { <<>>, <<"$">>, <<"no_parens">>, <<"$", "refresh", "(", ")">>,
    <<"1", "+", "1">>, <<"x", "=", "f", "(", "1", ")">>, <<"pass">>,
    <<"return", "f", "(", "1", ")">>, <<"x", "+=", "f", "(", "1", ")">>,
    <<"f", "(">>, <<"a", ".", "b", "(", "1", ")">>,
    <<"f", "(", "x", ")">>, <<"f", "(", "1", ",", "foo", ")">>,
    <<"f", "(", "k", "=", "x", ")">>, <<"$", "f", "(", "a", ".", "b", ")">>,
    <<"f", "(", "1", ",", "k", "=", "g", "(", ")", ")">>,
    <<"f", "(", "a", "=", "1", ",", "a", "=", "2", ")">>,
    <<"f", "(", "1", ")", ";", "g", "(", "2", ")">>,
    <<"f", "(", "[", "1", ",", "x", "]", ")">> }

Assignments ==
  { <<"x", "=", "1">>, <<"x", "=", "'", "Bob", "'">>,
    <<"x", "=", "[", "1", ",", "2", "]">>,
    <<"x", "=", "some_undefined_name">>, <<"x", "=", "a", ".", "b">>,
    <<"a", ".", "b", "=", "1">>, <<"a", ".", "b", ".", "c", "=", "1">>,
    <<"a", ".", "b", "=", "foo">>, <<"a", ".", "b", ".", "c", "=", "foo", ".", "x">>,
    <<"x", "[", "0", "]", "=", "1">>, <<"x", "[", "0", "]", "=", "foo">>,
    <<"(", "a", ",", "b", ")", "=", "1">>,
    <<"f", "(", ")", ".", "a", "=", "1">>, <<"f", "(", ")", ".", "a", "=", "foo">>,
    <<"x", "=", "1", ";", "y", "=", "2">>, <<"x", "=", "foo", ";", "pass">>,
    <<"a", "=", "b", "=", "1">>, <<"x", "=", "1", "+", "1">>,
    <<"x", "=", "f", "(", "1", ")", ".", "a">>,
    <<"x", "=">>, <<"=", "1">>, <<"x">>, <<"x", "+=", "1">>,
    <<"f", "(", ")", "=", "1">>, <<"pass", ";", "x", "=", "1">> }

Literals ==
  { <<"1", "2", "3">>, <<"'", "a", "'">>, <<"[", "1", ",", "2", "]">>,
    <<"(", "1", ",", "'", "a", "'", ")">>, <<"None">>, <<"0">>, <<"[", "]">>,
    <<"foo">>, <<"a", ".", "b">>, <<"f", "(", "1", ")">>, <<"[", "1", ",", "x", "]">>,
    <<"2", "0", "2", "0", "-", "1", "0", "-", "1", "0">>,
    <<"0", "1">>, <<"hello", "world">>,
    T_datetime, T_time, T_date, T_duration, T_zero_duration, T_bad_time,
    T_bad_datetime, T_uuid, T_overflow }

Texts == WellFormedCalls \cup OtherCalls \cup Assignments \cup Literals

Forms == {"omitted", "False", "True"}
Functions == {"eval_value", "parse_kwarg", "parse_call_method_name"}

\* The n-th text of a load of distinct literals on fn.
LoadText(fn, n) ==
  CASE fn = "eval_value" -> Decimal(n)
    [] fn = "parse_kwarg" -> <<"x", "=">> \o Decimal(n)
    [] fn = "parse_call_method_name" -> <<"f", "(">> \o Decimal(n) \o <<")">>

\* ------------------------------------------------------------- the state

VARIABLES
  evalCache,   \* the cache of eval_value
  kwargCache,  \* the cache of parse_kwarg
  callCache,   \* the cache of parse_call_method_name
  clock,       \* the number of cache lookups so far
  inp,         \* the text the caller works with
  calls,       \* the number of calls the caller has made
  last,        \* the last call and what it did
  first,       \* for every call made so far, what it did the first time
  loadFn,      \* the function under load ("none" without a load)
  load,        \* the number of distinct texts of the load so far
  repeats      \* the number of texts of the load called again

vars ==
  <<evalCache, kwargCache, callCache, clock, inp, calls, last, first, loadFn,
    load, repeats>>

NoCall ==
  [fn |-> "none", text |-> <<>>, form |-> "omitted", res |-> Return(PyNone),
   tried |-> <<>>, hit |-> FALSE, evicted |-> 0, seen |-> FALSE, full |-> FALSE]

CacheOf(fn) ==
  CASE fn = "eval_value" -> evalCache
    [] fn = "parse_kwarg" -> kwargCache
    [] fn = "parse_call_method_name" -> callCache
    [] OTHER -> <<>>

\* fn(text) on the caches as they are, raise_if_unparseable passed as form.
Outcome(fn, text, form) ==
  CASE fn = "eval_value" ->
         eval_value([cache |-> evalCache, clock |-> clock], PyStr(text))
    [] fn = "parse_kwarg" ->
         parse_kwarg([evalCache |-> evalCache, own |-> kwargCache, clock |-> clock],
                     text, form)
    [] fn = "parse_call_method_name" ->
         parse_call_method_name(
           [evalCache |-> evalCache, own |-> callCache, clock |-> clock], text)

\* The caches after the call that did o, and the record of the call.
Apply(fn, text, form, o) ==
  /\ evalCache' = o.st.cache
  /\ kwargCache' = IF fn = "parse_kwarg" THEN o.own ELSE kwargCache
  /\ callCache' = IF fn = "parse_call_method_name" THEN o.own ELSE callCache
  /\ clock' = o.st.clock
  /\ last' = [fn |-> fn, text |-> text, form |-> form, res |-> o.res,
              tried |-> o.tried, hit |-> o.hit, evicted |-> o.evicted,
              seen |-> [fn |-> fn, text |-> text, form |-> form] \in DOMAIN first,
              full |-> Len(CacheOf(fn)) >= maxsize]
  /\ first' = IF [fn |-> fn, text |-> text, form |-> form] \in DOMAIN first
                THEN first
                ELSE ([fn |-> fn, text |-> text, form |-> form] :> o.res) @@ first

\* One call by the caller.
Invoke(fn, text, form) == Apply(fn, text, form, Outcome(fn, text, form))

Init ==
  /\ evalCache = <<>>
  /\ kwargCache = <<>>
  /\ callCache = <<>>
  /\ clock = 0
  /\ inp \in Texts
  /\ calls = 0
  /\ last = NoCall
  /\ first = <<>>
  /\ loadFn = "none"
  /\ load = 0
  /\ repeats = 0

CallEvalValue ==
  /\ calls < MaxCalls
  /\ Invoke("eval_value", inp, "omitted")
  /\ calls' = calls + 1
  /\ UNCHANGED <<inp, loadFn, load, repeats>>

CallParseKwarg(form) ==
  /\ calls < MaxCalls
  /\ Invoke("parse_kwarg", inp, form)
  /\ calls' = calls + 1
  /\ UNCHANGED <<inp, loadFn, load, repeats>>

CallParseCallMethodName ==
  /\ calls < MaxCalls
  /\ Invoke("parse_call_method_name", inp, "omitted")
  /\ calls' = calls + 1
  /\ UNCHANGED <<inp, loadFn, load, repeats>>

Next ==
  \/ CallEvalValue
  \/ \E form \in Forms : CallParseKwarg(form)
  \/ CallParseCallMethodName

Spec == Init /\ [][Next]_vars

\* ------------------------------------------------- the caller's mutations
\* lru_cache hands every caller of the same arguments the one object it
\* keeps: what a caller does to a result it was given, it does to the entry.

Marker == PyInt(99)

\* list.append(marker), dict[marker] = marker
Appended(val) == PyList(Append(val.v, Marker))
Written(val) == PyDict(DictSet(val.v, PyStr(<<"marker">>), Marker))

\* value = eval_value(text); value.append(99)
MutateEvalResult ==
  \E i \in 1..Len(evalCache) :
    /\ evalCache[i].key.k = "str"
    /\ evalCache[i].val.t = "list"
    /\ \A j \in 1..Len(evalCache[i].val.v) : evalCache[i].val.v[j] # Marker
    /\ evalCache' = [evalCache EXCEPT ![i].val = Appended(@)]
    /\ UNCHANGED <<kwargCache, callCache, clock, inp, calls, last, first, loadFn,
                   load, repeats>>

\* kwargs = parse_kwarg(text); kwargs["marker"] = 99
MutateKwargResult ==
  \E i \in 1..Len(kwargCache) :
    /\ \A j \in 1..Len(kwargCache[i].val.v) : kwargCache[i].val.v[j].v # Marker
    /\ kwargCache' = [kwargCache EXCEPT ![i].val = Written(@)]
    /\ UNCHANGED <<evalCache, callCache, clock, inp, calls, last, first, loadFn,
                   load, repeats>>

\* (name, args, kwargs) = parse_call_method_name(text); args.append(99)
MutateCallResult ==
  \E i \in 1..Len(callCache) :
    /\ \A j \in 1..Len(callCache[i].val.v[2].v) : callCache[i].val.v[2].v[j] # Marker
    /\ callCache' = [callCache EXCEPT ![i].val.v[2] = Appended(@)]
    /\ UNCHANGED <<evalCache, kwargCache, clock, inp, calls, last, first, loadFn,
                   load, repeats>>

NextCaller ==
  \/ Next
  \/ MutateEvalResult
  \/ MutateKwargResult
  \/ MutateCallResult

SpecCaller == Init /\ [][NextCaller]_vars

\* ---------------------------------------------------------------- the load
\* One function under a load of distinct texts, more than its cache holds.

InitLRU ==
  /\ evalCache = <<>>
  /\ kwargCache = <<>>
  /\ callCache = <<>>
  /\ clock = 0
  /\ inp = <<>>
  /\ calls = 0
  /\ last = NoCall
  /\ first = <<>>
  /\ loadFn \in Functions
  /\ load = 0
  /\ repeats = 0

\* The next text of the load.
LoadNext ==
  /\ load < maxsize + Extra
  /\ Invoke(loadFn, LoadText(loadFn, load + 1), "omitted")
  /\ load' = load + 1
  /\ UNCHANGED <<inp, calls, loadFn, repeats>>

\* An earlier text again, once the cache is full: the text that left the
\* cache last if the load was all there was, the one after it, or the newest.
LoadAgain ==
  /\ load >= maxsize
  /\ repeats < MaxRepeats
  /\ \E n \in {load - maxsize, load - maxsize + 1, load} \cap (1..load) :
       Invoke(loadFn, LoadText(loadFn, n), "omitted")
  /\ repeats' = repeats + 1
  /\ UNCHANGED <<inp, calls, loadFn, load>>

NextLRU ==
  \/ LoadNext
  \/ LoadAgain

SpecLRU == InitLRU /\ [][NextLRU]_vars

\* ----------------------------------------------------------- the properties
\* The cases the properties are about, read off the text of the last call.

\* A display of constants, lists and tuples: a genuine literal.
RECURSIVE IsLiteralNode(_)
IsLiteralNode(n) ==
  \/ n.node = "Constant"
  \/ /\ n.node \in {"List", "Tuple"}
     /\ \A i \in 1..Len(n.elts) : IsLiteralNode(n.elts[i])

\* A bare name or an attribute chain rooted at one.
RECURSIVE IsNameChain(_)
IsNameChain(n) ==
  \/ n.node = "Name"
  \/ n.node = "Attribute" /\ IsNameChain(n.value)

\* p, a parse of a text as statements, is one assignment statement.
OneAssignment(p) ==
  /\ p.kind = "return"
  /\ Len(p.val.body) = 1
  /\ p.val.body[1].node = "Assign"

\* p starts with an expression statement that is a call.
TopLevelCall(p) ==
  /\ p.kind = "return"
  /\ p.val.body # <<>>
  /\ p.val.body[1].node = "Expr"
  /\ p.val.body[1].value.node = "Call"

HasInvalidArgument(call) ==
  \/ \E i \in 1..Len(call.args) : ~IsLiteralNode(call.args[i])
  \/ \E i \in 1..Len(call.keywords) : ~IsLiteralNode(call.keywords[i].value)

WithoutDollar(text) == IF text # <<>> /\ Head(text) = "$" THEN Tail(text) ELSE text

\* The id of the last call in first.
LastCall == [fn |-> last.fn, text |-> last.text, form |-> last.form]

\* The mapping {k1: v1, ..., km: vm} of keyword arguments with distinct names.
KwargsOf(kws) ==
  [i \in 1..Len(kws) |-> [k |-> PyStr(<<kws[i].arg>>), v |-> kws[i].value]]

C2_SameResultAfterMutation ==
  last.seen => last.res = first[LastCall]

C3Holds(l, p) ==
  (l.fn = "parse_kwarg" /\ OneAssignment(p)
     /\ ~IsLiteralNode(p.val.body[1].value)) =>
    IF l.form = "True" THEN l.res.kind = "raise"
    ELSE /\ l.res.kind = "return"
         /\ Len(l.res.val.v) = 1
         /\ l.res.val.v[1].v = PyStr(_get_expr_string(p.val.body[1].value))

\* C3: on an assignment whose right-hand side is a semantically invalid
\* literal, parse_kwarg with raise_if_unparseable false returns a one-entry
\* mapping whose value is the right-hand side as a dotted string, and with
\* raise_if_unparseable true raises, whatever calls came before.
C3_RecoverOrRaise == C3Holds(last, ast_parse(last.text))

C4Holds(l, p) ==
  (l.fn = "parse_kwarg" /\ l.form # "True" /\ OneAssignment(p)
     /\ IsNameChain(p.val.body[1].targets[1])
     /\ IsNameChain(p.val.body[1].value)) =>
    l.res = Return(PyDict(<<[k |-> PyStr(_get_expr_string(p.val.body[1].targets[1])),
                            v |-> PyStr(_get_expr_string(p.val.body[1].value))]>>))

\* C4: in the recovery path of parse_kwarg (raise_if_unparseable false, the
\* right-hand side an unresolved identifier) the call returns the mapping of
\* the dot-joined target to the deferred name, for an attribute chain too.
C4_RecoveryKeyIsDottedTarget == C4Holds(last, ast_parse(last.text))

C5Holds(l, p) ==
  l.fn = "parse_kwarg" =>
    /\ ~(/\ OneAssignment(p)
         /\ IsNameChain(p.val.body[1].targets[1])) => l.res = Raise("InvalidKwarg")
    /\ l.res.kind = "return" =>
         \A i \in 1..Len(l.res.val.v) : l.res.val.v[i].k.v # <<>>

\* C5: parse_kwarg raises InvalidKwarg whenever the text is not one
\* assignment statement or its target is not a bare name or an attribute
\* chain, and the key of every mapping it returns is not empty.
C5_InvalidKwargRaised == C5Holds(last, ast_parse(last.text))

\* C6: the method_name of every result parse_call_method_name returns is
\* not empty.
C6_MethodNameNotEmpty ==
  (last.fn = "parse_call_method_name" /\ last.res.kind = "return") =>
    last.res.val.v[1].v # <<>>

C7Holds(l, p) ==
  (l.fn = "parse_call_method_name" /\ p.kind = "return" /\ ~TopLevelCall(p)) =>
    l.res = Return(PyTuple(<<PyStr(l.text), PyList(<<>>), PyDict(<<>>)>>))

\* C7: on a text that parses and whose top-level form is not a call
\* expression, parse_call_method_name returns the whole text as method_name
\* and no arguments.
C7_NonCallIsBareName == C7Holds(last, ast_parse(WithoutDollar(last.text)))

\* The first coercion of text, from the i-th on, that neither throws nor
\* yields a false-y value, and how many coercions were tried.
RECURSIVE FirstCoercion(_, _)
FirstCoercion(text, i) ==
  IF i > Len(CASTERS) THEN [val |-> PyStr(text), n |-> Len(CASTERS)]
  ELSE IF /\ Caster(CASTERS[i], text).kind = "return"
          /\ Truthy(Caster(CASTERS[i], text).val)
    THEN [val |-> Caster(CASTERS[i], text).val, n |-> i]
  ELSE FirstCoercion(text, i + 1)

C8Holds(l, p, c) ==
  (l.fn = "eval_value" /\ p.kind = "raise") =>
    /\ l.res = Return(c.val)
    /\ ~l.hit => l.tried = SubSeq(CASTERS, 1, c.n)

\* C8: on a text that is not syntactically a literal expression eval_value
\* tries the coercions in the order of CASTERS, returns the first non-false-y
\* result, skips a coercion that throws or yields a false-y value, and returns
\* the text when none matches; it raises nothing.
C8_CoercionChain ==
  C8Holds(last, ast_parse_eval(last.text), FirstCoercion(last.text, 1))

C9Eval(l, p) ==
  (l.fn = "eval_value" /\ p.kind = "return" /\ ~IsLiteralNode(p.val)) =>
    l.res = Raise("ValueError") /\ l.tried = <<>>

C9Call(l, p) ==
  (l.fn = "parse_call_method_name" /\ TopLevelCall(p)
     /\ HasInvalidArgument(p.val.body[1].value)) =>
    /\ l.res.kind = "raise"
    /\ p.val.body[1].value.func.node = "Name" => l.res = Raise("ValueError")

C9WitnessCall(l, p) ==
  /\ l.fn = "parse_call_method_name"
  /\ TopLevelCall(p)
  /\ p.val.body[1].value.args # <<>>
  /\ IsLiteralNode(p.val.body[1].value.args[1])
  /\ HasInvalidArgument(p.val.body[1].value)
  /\ l.res = Raise("ValueError")

Sorted(cache) ==
  \A i, j \in 1..Len(cache) : i < j => cache[i].used < cache[j].used

\* C10: each cache holds at most maxsize entries; a miss on a full cache
\* evicts the least recently used entry; an input called again, evicted or
\* not, gives the result it gave the first time.
C10_BoundedLru ==
  /\ Len(evalCache) <= maxsize
  /\ Len(kwargCache) <= maxsize
  /\ Len(callCache) <= maxsize
  /\ Sorted(evalCache) /\ Sorted(kwargCache) /\ Sorted(callCache)
  /\ (last.full /\ ~last.hit /\ last.res.kind = "return") =>
       /\ last.evicted # 0
       /\ Len(CacheOf(last.fn)) = maxsize
  /\ last.evicted # 0 =>
       \A i \in 1..Len(CacheOf(last.fn)) : CacheOf(last.fn)[i].used > last.evicted
  /\ last.seen => last.res = first[LastCall]

\* An input that had been evicted was parsed again, and its return evicted
\* the least recently used entry of the full cache.
C10_Witness ==
  /\ last.seen
  /\ ~last.hit
  /\ last.full
  /\ last.evicted # 0
  /\ last.res = first[LastCall]

====
